---------------------------- MODULE Spec2Model ----------------------------
(***************************************************************************)
(* A model of gdpc's WorldSlice (src/gdpc/worldLoader.py): the             *)
(* construction of a slice of the world from the chunk data of the GDMC    *)
(* HTTP interface, and the position queries on it.                         *)
(*                                                                         *)
(* Integers are mathematical; a 64-bit word of a TAG_Long_Array is a       *)
(* function from bit positions 0..63 to {0, 1}, so that shifts and masks   *)
(* are exact whatever the sign of the stored long.                         *)
(***************************************************************************)
EXTENDS Integers, Sequences, FiniteSets, TLC

----------------------------------------------------------------------------
(* Program constants *)

\* A chunk is 16 x 16 columns, a section 16 x 16 x 16 blocks (the literal 16
\* and the shift by 4 of worldLoader.py).
ChunkSize == 16

\* lookup.BUILD_Y_MIN: the lowest y position, -64 since Minecraft 1.18.
BUILD_Y_MIN == -64

\* The bits of one heightmap entry: BitArray(9, 16 * 16, hmRaw).
HeightmapBits == 9

\* The bits of one long of a TAG_Long_Array.
WordBits == 64

----------------------------------------------------------------------------
(* Bounds of the model *)

\* World coordinates of the rectangles of SpecRect lie in -MaxOrigin..MaxOrigin.
MaxOrigin == 17

----------------------------------------------------------------------------
(* Integer helpers: the operators of Python ints and of glm's integer      *)
(* vectors, per component.                                                 *)

Pow2(n) == 2 ^ n

\* a >> k on a signed integer: the arithmetic shift, which floors.
Shr(a, k) == a \div Pow2(k)

\* a << k.
Shl(a, k) == a * Pow2(k)

\* Python's a % m on ints: the result has the sign of m (non-negative here).
PyMod(a, m) == a % m

\* glm's ivec % int: the C++ operator per component, which truncates toward
\* zero, so the result has the sign of a. (gdpc's trueMod exists for it.)
GlmMod(a, m) == IF a >= 0 THEN a % m ELSE -((-a) % m)

\* vector_util.trueMod per component: always in 0..m-1.
trueMod(a, m) == ((GlmMod(a, m) + m) % m)

\* a | b on Python ints (two's complement of unbounded width): bit by bit
\* from the lowest, until one operand has no bit left to add.
RECURSIVE BitOr(_, _)
BitOr(a, b) ==
    IF a = 0 THEN b
    ELSE IF b = 0 THEN a
    ELSE IF a = -1 \/ b = -1 THEN -1
    ELSE 2 * BitOr(a \div 2, b \div 2) + (IF a % 2 = 1 \/ b % 2 = 1 THEN 1 ELSE 0)

Max(a, b) == IF a >= b THEN a ELSE b

\* ceil(log2(n)) for n >= 1: the least k with 2^k >= n.
RECURSIVE CeilLog2From(_, _)
CeilLog2From(n, k) == IF Pow2(k) >= n THEN k ELSE CeilLog2From(n, k + 1)
CeilLog2(n) == CeilLog2From(n, 0)

----------------------------------------------------------------------------
(* State *)

VARIABLES
    rect,            \* WorldSlice.rect: [offset |-> <<x, z>>, size |-> <<dx, dz>>]
    heightmapTypes,  \* WorldSlice.heightmapTypes: the requested kinds, in order
    pc,              \* the position of __init__: "start", "fetch", "parse",
                     \* "heightmaps", "sections", "done" or "failed"
    chunkRect,       \* WorldSlice.chunkRect
    fetchCalls,      \* the number of di.getChunks calls issued so far
    fetched,         \* the arguments <<x, z, dx, dz>> of those calls, in order
    nbtfile,         \* WorldSlice.nbtfile: the parsed document (the chunk
                     \* rectangle it was fetched for), or NoDocument
    rectOffset,      \* the local rectOffset of __init__
    heightmaps,      \* WorldSlice.heightmaps: kind -> grid; a grid is a function
                     \* on (0..dx-1) \X (0..dz-1)
    loop,            \* the loop variables of __init__: x, z, hm, cz, cx, si
    sections,        \* WorldSlice.sections: key <<x, y, z>> -> CachedSection
    error,           \* the exception that ended __init__, or "none"
    result,          \* the last query and what it returned or raised
    bitArray,        \* a BitArray under test (SpecBits)
    longArray,       \* the TAG_Long_Array the BitArray under test decodes
    entries,         \* the values that were packed into longArray
    decoded          \* the values read back so far, in index order

sliceVars == <<rect, heightmapTypes, pc, chunkRect, fetchCalls, fetched, nbtfile,
               rectOffset, heightmaps, loop, sections, error, result>>
bitVars == <<bitArray, longArray, entries, decoded>>
vars == <<rect, heightmapTypes, pc, chunkRect, fetchCalls, fetched, nbtfile,
          rectOffset, heightmaps, loop, sections, error, result,
          bitArray, longArray, entries, decoded>>

----------------------------------------------------------------------------
(* BitArray (gdpc/bitarray.py): fixed-width entries in 64-bit longs, no     *)
(* entry split across two longs.                                            *)

\* A TAG_Long_Array field that is absent (data = None).
NoData == <<"none">>

\* The longs a data reference stands for: the array under test, or an array
\* of the fetched document (defined with the document, below).
BitArray(bitsPerEntryIn, arraySizeIn, data) ==
    [bitsPerEntry |-> bitsPerEntryIn, arraySize |-> arraySizeIn, data |-> data]

entriesPerLong(ba) == WordBits \div ba.bitsPerEntry

\* Bit p of (word >> 0), for p beyond 63 the sign bit: Python's >> on a
\* signed long.
WordBit(word, p) == IF p < WordBits THEN word[p] ELSE word[WordBits - 1]

\* (word >> k) & maxEntryValue, as bits, lowest first.
ShiftMask(word, k, bitsPerEntry) ==
    [b \in 0 .. bitsPerEntry - 1 |-> WordBit(word, k + b)]

\* A variant of getAtIn: the entries packed without gaps, so that an entry may
\* lie across two longs.
getAtCrossWord(ba, words, index) ==
    ShiftMask(words[(index * ba.bitsPerEntry) \div WordBits],
              (index * ba.bitsPerEntry) % WordBits, ba.bitsPerEntry)

\* getAt with the longs given: the entry's bits, lowest first; long
\* index // entriesPerLong, shifted right by (index % entriesPerLong) *
\* bitsPerEntry and masked.
getAtIn(ba, words, index) ==
    ShiftMask(words[index \div entriesPerLong(ba)],
              (index - (index \div entriesPerLong(ba)) * entriesPerLong(ba))
                  * ba.bitsPerEntry,
              ba.bitsPerEntry)

\* getAt accepts 0 <= index < arraySize and fails otherwise.
getAtInRange(ba, index) == 0 <= index /\ index < ba.arraySize

\* The number a bit vector (lowest bit first) stands for.
RECURSIVE BitsToNatFrom(_, _, _)
BitsToNatFrom(bits, b, w) ==
    IF b = w THEN 0 ELSE bits[b] * Pow2(b) + BitsToNatFrom(bits, b + 1, w)
BitsToNat(bits, w) == BitsToNatFrom(bits, 0, w)

\* The bits of a number, lowest first.
NatToBits(v, w) == [b \in 0 .. w - 1 |-> (v \div Pow2(b)) % 2]

\* The longs of n entries of w bits each as Minecraft writes them:
\* floor(64 / w) entries per long, the remaining high bits of a long zero.
WordCount(w, n) == (n + (WordBits \div w) - 1) \div (WordBits \div w)

PackWords(vals, w, n) ==
    [j \in 0 .. WordCount(w, n) - 1 |->
        [p \in 0 .. WordBits - 1 |->
            IF p \div w < WordBits \div w /\ j * (WordBits \div w) + (p \div w) < n
            THEN vals[j * (WordBits \div w) + (p \div w)][p % w]
            ELSE 0]]

----------------------------------------------------------------------------
(* The world behind the GDMC HTTP interface, and the document GET /chunks   *)
(* answers with. Chunk (wcx, wcz) holds the columns 16*wcx .. 16*wcx+15,    *)
(* 16*wcz .. 16*wcz+15. Chunks with wcx >= GridBase are test chunks whose   *)
(* only section carries one biome grid of a parametrised family.            *)

\* The default heightmapTypes of WorldSlice.__init__.
DefaultHeightmapTypes ==
    <<"MOTION_BLOCKING", "MOTION_BLOCKING_NO_LEAVES", "OCEAN_FLOOR", "WORLD_SURFACE">>

KindNo(kind) == CHOOSE k \in 1 .. 4 : DefaultHeightmapTypes[k] = kind

BlockNames ==
    <<"minecraft:stone", "minecraft:dirt", "minecraft:grass_block",
      "minecraft:sand", "minecraft:gravel", "minecraft:water",
      "minecraft:oak_log", "minecraft:oak_leaves", "minecraft:coal_ore",
      "minecraft:iron_ore", "minecraft:andesite", "minecraft:diorite",
      "minecraft:granite", "minecraft:clay", "minecraft:snow",
      "minecraft:ice", "minecraft:air">>

BiomeNames ==
    <<"minecraft:plains", "minecraft:forest", "minecraft:river",
      "minecraft:desert", "minecraft:taiga">>

\* The chunk coordinate from which the test chunks start.
GridBase == 100

\* The biome grids of the test chunks: cell (x, y, z) holds palette index
\* ((a*x + b*y + c*z + d) % m) % k with a, b, c, d in 0..MaxGridParam,
\* m in GridModuli and k in 1..3.
MaxGridParam == 2
GridRadix == MaxGridParam + 1
GridModuli == <<4, 5, 7>>

IsGridChunk(wcx) == wcx >= GridBase

GridParams(wcx, wcz) ==
    LET g == wcx - GridBase
        h == wcz - GridBase
    IN  [a |-> g % GridRadix,
         b |-> (g \div GridRadix) % GridRadix,
         c |-> (g \div (GridRadix * GridRadix)) % GridRadix,
         d |-> (g \div (GridRadix * GridRadix * GridRadix)) % GridRadix,
         m |-> GridModuli[(h % 3) + 1],
         k |-> ((h \div 3) % 3) + 1]

GridChunkXs == GridBase .. GridBase + GridRadix * GridRadix * GridRadix * GridRadix - 1
GridChunkZs == GridBase .. GridBase + 8

\* The raw 9-bit heightmap value of a world column.
WorldHeight(kind, wx, wz) ==
    ((wx + 64) * 23 + (wz + 64) * 7 + KindNo(kind) * 131) % 512

\* The sections of a chunk, bottom up, as (Y, number of block palette
\* entries, number of biome palette entries, what is stored):
\*   "full"     block_states and biomes with palette and data
\*   "single"   one-entry palettes, no data
\*   "noblocks" no block_states field
\*   "empty"    block_states present and empty
\*   "nobiomes" block_states with palette and data, no biomes field
RegularSections(wcx, wcz) ==
    <<[Y |-> -1, nBlocks |-> 17, nBiomes |-> 5, kind |-> "full"],
      [Y |-> 0, nBlocks |-> 3, nBiomes |-> 2, kind |-> "full"],
      [Y |-> 1, nBlocks |-> 1, nBiomes |-> 1, kind |-> "single"],
      [Y |-> 2, nBlocks |-> 0, nBiomes |-> 1, kind |-> "noblocks"],
      [Y |-> 3, nBlocks |-> 0, nBiomes |-> 1, kind |-> "empty"]>>
    \o (IF wcx = -2 /\ wcz = -2
        THEN <<[Y |-> 4, nBlocks |-> 2, nBiomes |-> 0, kind |-> "nobiomes"],
               [Y |-> 5, nBlocks |-> 2, nBiomes |-> 2, kind |-> "full"]>>
        ELSE IF wcx = 1 /\ wcz = 0
        THEN <<[Y |-> 7, nBlocks |-> 1, nBiomes |-> 1, kind |-> "single"]>>
        ELSE <<>>)

GridSections(wcx, wcz) ==
    LET k == GridParams(wcx, wcz).k
    IN  <<[Y |-> 0, nBlocks |-> 2, nBiomes |-> k,
           kind |-> IF k = 1 THEN "singlebiome" ELSE "full"]>>

SectionShapes(wcx, wcz) ==
    IF IsGridChunk(wcx) THEN GridSections(wcx, wcz) ELSE RegularSections(wcx, wcz)

\* The palettes of a chunk's section: the names, rotated by the chunk and the
\* section, so that two sections do not resolve an index alike.
BlockPalette(wcx, wcz, Y, n) ==
    [i \in 1 .. n |-> [Name |-> BlockNames[((i - 1 + wcx * 3 + wcz * 5 + Y) % 17) + 1]]]

BiomePalette(wcx, wcz, Y, n) ==
    [i \in 1 .. n |-> BiomeNames[((i - 1 + wcx + wcz * 2 + Y) % 5) + 1]]

\* The palette index of the block at a world position, in a section whose
\* block palette has n entries.
WorldBlockIndex(wx, wy, wz, n) == (wx * 7 + wy * 11 + wz * 13 + 5) % n

\* The palette index of biome cell (x, y, z), each in 0..3, of section Y of
\* chunk (wcx, wcz), whose biome palette has n entries.
WorldBiomeIndex(wcx, wcz, Y, x, y, z, n) ==
    IF IsGridChunk(wcx)
    THEN LET g == GridParams(wcx, wcz)
         IN  ((g.a * x + g.b * y + g.c * z + g.d) % g.m) % g.k
    ELSE ((wcx * 4 + x) * 3 + (Y * 4 + y) * 7 + (wcz * 4 + z) * 5 + 1) % n

\* The bit widths Minecraft stores palette indices with.
FormatBlockBits(n) == Max(4, CeilLog2(n))
FormatBiomeBits(n) == Max(1, CeilLog2(n))

\* The longs behind a data reference. Heightmap entry lz*16 + lx is the
\* column (lx, lz) of the chunk, block entry ly*256 + lz*16 + lx the block
\* (lx, ly, lz) of the section, biome entry y*16 + z*4 + x the cell (x, y, z).
LongArrayOf(data) ==
    CASE data[1] = "test" -> longArray
      [] data[1] = "heightmap" ->
            PackWords([i \in 0 .. 255 |->
                          NatToBits(WorldHeight(data[2], data[3] * 16 + (i % 16),
                                                data[4] * 16 + (i \div 16)),
                                    HeightmapBits)],
                      HeightmapBits, 256)
      [] data[1] = "blocks" ->
            PackWords([i \in 0 .. 4095 |->
                          NatToBits(WorldBlockIndex(data[2] * 16 + (i % 16),
                                                    data[4] * 16 + (i \div 256),
                                                    data[3] * 16 + ((i \div 16) % 16),
                                                    data[5]),
                                    FormatBlockBits(data[5]))],
                      FormatBlockBits(data[5]), 4096)
      [] data[1] = "biomes" ->
            PackWords([i \in 0 .. 63 |->
                          NatToBits(WorldBiomeIndex(data[2], data[3], data[4],
                                                    i % 4, i \div 16, (i \div 4) % 4,
                                                    data[5]),
                                    FormatBiomeBits(data[5]))],
                      FormatBiomeBits(data[5]), 64)

\* A compound field of a section: absent, or present with its own fields.
Absent ==
    [present |-> FALSE, hasPalette |-> FALSE, palette |-> <<>>,
     hasData |-> FALSE, data |-> NoData]
EmptyCompound ==
    [present |-> TRUE, hasPalette |-> FALSE, palette |-> <<>>,
     hasData |-> FALSE, data |-> NoData]
Paletted(palette, data) ==
    [present |-> TRUE, hasPalette |-> TRUE, palette |-> palette,
     hasData |-> data # NoData, data |-> data]

\* len() of a compound: the number of its fields.
CompoundLen(c) ==
    (IF c.hasPalette THEN 1 ELSE 0) + (IF c.hasData THEN 1 ELSE 0)

\* The section node of the document for a section shape.
SectionNode(wcx, wcz, sh) ==
    LET blocks == Paletted(BlockPalette(wcx, wcz, sh.Y, sh.nBlocks),
                           <<"blocks", wcx, wcz, sh.Y, sh.nBlocks>>)
        biomes == Paletted(BiomePalette(wcx, wcz, sh.Y, sh.nBiomes),
                           <<"biomes", wcx, wcz, sh.Y, sh.nBiomes>>)
        oneBlock == Paletted(BlockPalette(wcx, wcz, sh.Y, 1), NoData)
        oneBiome == Paletted(BiomePalette(wcx, wcz, sh.Y, 1), NoData)
    IN  CASE sh.kind = "full" ->
                [Y |-> sh.Y, block_states |-> blocks, biomes |-> biomes]
          [] sh.kind = "single" ->
                [Y |-> sh.Y, block_states |-> oneBlock, biomes |-> oneBiome]
          [] sh.kind = "singlebiome" ->
                [Y |-> sh.Y, block_states |-> blocks, biomes |-> oneBiome]
          [] sh.kind = "noblocks" ->
                [Y |-> sh.Y, block_states |-> Absent, biomes |-> oneBiome]
          [] sh.kind = "empty" ->
                [Y |-> sh.Y, block_states |-> EmptyCompound, biomes |-> oneBiome]
          [] sh.kind = "nobiomes" ->
                [Y |-> sh.Y, block_states |-> blocks, biomes |-> Absent]

\* The chunk node of the document for world chunk (wcx, wcz).
WorldChunk(wcx, wcz) ==
    [Heightmaps |-> [kind \in {DefaultHeightmapTypes[k] : k \in 1 .. 4} |->
                        <<"heightmap", kind, wcx, wcz>>],
     sections |-> [s \in 1 .. Len(SectionShapes(wcx, wcz)) |->
                     SectionNode(wcx, wcz, SectionShapes(wcx, wcz)[s])]]

\* The document parsed from the bytes of GET /chunks?x=&z=&dx=&dz=: its
\* Chunks list holds the chunks row by row, x varying fastest.
NoDocument == [offset |-> <<0, 0>>, size |-> <<0, 0>>, parsed |-> FALSE]
Document(offset, size) == [offset |-> offset, size |-> size, parsed |-> TRUE]

\* nbtfile['Chunks'][chunkID]
DocChunk(doc, chunkID) ==
    WorldChunk(doc.offset[1] + (chunkID % doc.size[1]),
               doc.offset[2] + (chunkID \div doc.size[1]))

----------------------------------------------------------------------------
(* WorldSlice.__init__ *)

\* heightmapTypes=None, the default argument.
NoneTypes == <<"None">>

NoRect == [offset |-> <<0, 0>>, size |-> <<0, 0>>]
NoLoop == [x |-> 0, z |-> 0, hm |-> 1, cz |-> 0, cx |-> 0, si |-> 1]
NoResult == [op |-> "none", position |-> <<0, 0, 0>>, out |-> [kind |-> "none"]]
NoBitArray == BitArray(1, 0, NoData)

\* A variant of ChunkRectOf: the origin divided by 16 rounding toward zero.
ChunkOriginTruncated(r) ==
    [offset |-> <<IF r.offset[1] >= 0 THEN r.offset[1] \div ChunkSize
                  ELSE -((-r.offset[1]) \div ChunkSize),
                  IF r.offset[2] >= 0 THEN r.offset[2] \div ChunkSize
                  ELSE -((-r.offset[2]) \div ChunkSize)>>,
     size |-> <<Shr(r.offset[1] + r.size[1] - 1, 4) - Shr(r.offset[1], 4) + 1,
                Shr(r.offset[2] + r.size[2] - 1, 4) - Shr(r.offset[2], 4) + 1>>]

\* Rect(offset >> 4, ((offset + size - 1) >> 4) - (offset >> 4) + 1)
ChunkRectOf(r) ==
    [offset |-> <<Shr(r.offset[1], 4), Shr(r.offset[2], 4)>>,
     size |-> <<Shr(r.offset[1] + r.size[1] - 1, 4) - Shr(r.offset[1], 4) + 1,
                Shr(r.offset[2] + r.size[2] - 1, 4) - Shr(r.offset[2], 4) + 1>>]

\* Lines 49-60: the default heightmap kinds, self.rect, self.chunkRect.
ComputeChunkRect ==
    /\ pc = "start"
    /\ heightmapTypes' = IF heightmapTypes = NoneTypes THEN DefaultHeightmapTypes
                         ELSE heightmapTypes
    /\ chunkRect' = ChunkRectOf(rect)
    /\ pc' = "fetch"
    /\ UNCHANGED <<rect, fetchCalls, fetched, nbtfile, rectOffset, heightmaps, loop,
                   sections, error, result>>
    /\ UNCHANGED bitVars

\* The arguments of line 62: *self.chunkRect.offset, *self.chunkRect.size.
GetChunksArgs ==
    <<chunkRect.offset[1], chunkRect.offset[2], chunkRect.size[1], chunkRect.size[2]>>

\* A variant of FetchChunks: the call is issued a second time before its
\* bytes are used.
FetchChunksRetried ==
    /\ pc = "fetch"
    /\ fetchCalls' = fetchCalls + 2
    /\ fetched' = Append(Append(fetched, GetChunksArgs), GetChunksArgs)
    /\ pc' = "parse"
    /\ UNCHANGED <<rect, heightmapTypes, chunkRect, nbtfile, rectOffset,
                   heightmaps, loop, sections, error, result>>
    /\ UNCHANGED bitVars

\* Line 62: di.getChunks(*chunkRect.offset, *chunkRect.size, asBytes=True)
\* returns the bytes of the chunks.
FetchChunks ==
    /\ pc = "fetch"
    /\ fetchCalls' = fetchCalls + 1
    /\ fetched' = Append(fetched, GetChunksArgs)
    /\ pc' = "parse"
    /\ UNCHANGED <<rect, heightmapTypes, chunkRect, nbtfile, rectOffset,
                   heightmaps, loop, sections, error, result>>
    /\ UNCHANGED bitVars

\* Line 62: the request fails, and __init__ ends with the exception (as
\* interface.py's _request raises InterfaceConnectionError).
FetchFails ==
    /\ pc = "fetch"
    /\ fetchCalls' = fetchCalls + 1
    /\ fetched' = Append(fetched, GetChunksArgs)
    /\ pc' = "failed"
    /\ error' = "InterfaceConnectionError"
    /\ UNCHANGED <<rect, heightmapTypes, chunkRect, nbtfile, rectOffset,
                   heightmaps, loop, sections, result>>
    /\ UNCHANGED bitVars

\* np.zeros(shape, dtype=int) for a shape without negative entries.
Zeros(shape) == [c \in (0 .. shape[1] - 1) \X (0 .. shape[2] - 1) |-> 0]

\* The number of chunks of the chunk rectangle the loops visit.
ChunkCount == IF chunkRect.size[1] > 0 /\ chunkRect.size[2] > 0
              THEN chunkRect.size[1] * chunkRect.size[2] ELSE 0

\* Lines 63-74: parse the bytes, rectOffset, and a grid of zeros per kind.
\* np.zeros raises ValueError for a negative dimension.
ParseAndAllocate ==
    /\ pc = "parse"
    /\ nbtfile' = Document(<<fetched[Len(fetched)][1], fetched[Len(fetched)][2]>>,
                           <<fetched[Len(fetched)][3], fetched[Len(fetched)][4]>>)
    /\ rectOffset' = <<trueMod(rect.offset[1], ChunkSize), trueMod(rect.offset[2], ChunkSize)>>
    /\ IF rect.size[1] < 0 \/ rect.size[2] < 0
       THEN /\ pc' = "failed"
            /\ error' = "ValueError"
            /\ UNCHANGED <<heightmaps, loop>>
       ELSE /\ heightmaps' = [k \in {heightmapTypes[i] : i \in 1 .. Len(heightmapTypes)} |->
                                 Zeros(rect.size)]
            /\ loop' = NoLoop
            /\ pc' = IF ChunkCount = 0 THEN "done"
                     ELSE IF Len(heightmapTypes) = 0 THEN "sections"
                     ELSE "heightmaps"
            /\ error' = error
    /\ UNCHANGED <<rect, heightmapTypes, chunkRect, fetchCalls, fetched, sections, result>>
    /\ UNCHANGED bitVars

\* What a call does: return a value, return None, or raise.
Return(v) == [kind |-> "return", value |-> v]
ReturnNone == [kind |-> "none"]
Raise(e) == [kind |-> "raise", exc |-> e]

\* A variant of getAt: an array without data is decoded like any other, which
\* fails on the missing longs.
getAtNoConstant(ba, index) ==
    IF ~getAtInRange(ba, index) THEN Raise("OutOfRange")
    ELSE IF ba.data[1] = "none" THEN Raise("TypeError")
    ELSE Return(BitsToNat(getAtIn(ba, LongArrayOf(ba.data), index), ba.bitsPerEntry))

\* BitArray.getAt(index): the entry as a number; an array without data reads
\* as zero everywhere; an index outside 0..arraySize-1 fails.
getAt(ba, index) ==
    IF ~getAtInRange(ba, index) THEN Raise("OutOfRange")
    ELSE IF ba.data[1] = "none" THEN Return(0)
    ELSE Return(BitsToNat(getAtIn(ba, LongArrayOf(ba.data), index), ba.bitsPerEntry))

\* heightmap[i, j] = v on a numpy array of the given shape: an index in
\* -n..-1 counts from the end, an index outside -n..n-1 raises IndexError.
NpIndexOk(shape, i, j) ==
    /\ -shape[1] <= i /\ i < shape[1]
    /\ -shape[2] <= j /\ j < shape[2]

NpCell(shape, i, j) ==
    <<IF i < 0 THEN i + shape[1] ELSE i, IF j < 0 THEN j + shape[2] ELSE j>>

\* The destination index of the assignment of lines 96-97.
DestIndex(l) ==
    <<-rectOffset[1] + l.x * 16 + l.cx, -rectOffset[2] + l.z * 16 + l.cz>>

\* A variant of HeightValue: the entry read at cx * 16 + cz.
HeightValueTransposed(l) ==
    LET chunkID == l.x + l.z * chunkRect.size[1]
        hmRaw == DocChunk(nbtfile, chunkID).Heightmaps[heightmapTypes[l.hm]]
        heightmapBitArray == BitArray(HeightmapBits, 16 * 16, hmRaw)
    IN  getAt(heightmapBitArray, l.cx * 16 + l.cz).value + BUILD_Y_MIN

\* The right-hand side of line 98 for the loop variables l:
\* heightmapBitArray.getAt(cz * 16 + cx) + lookup.BUILD_Y_MIN.
HeightValue(l) ==
    LET chunkID == l.x + l.z * chunkRect.size[1]
        hmRaw == DocChunk(nbtfile, chunkID).Heightmaps[heightmapTypes[l.hm]]
        heightmapBitArray == BitArray(HeightmapBits, 16 * 16, hmRaw)
    IN  getAt(heightmapBitArray, l.cz * 16 + l.cx).value + BUILD_Y_MIN

\* The loop variables after one more pass of the innermost loop of lines
\* 79-100 (for x, for z, for hmName, for cz, for cx), and whether there is one.
HeightLoopLast(l) ==
    /\ l.cx = 15 /\ l.cz = 15 /\ l.hm = Len(heightmapTypes)
    /\ l.z = chunkRect.size[2] - 1 /\ l.x = chunkRect.size[1] - 1

HeightLoopNext(l) ==
    IF l.cx < 15 THEN [l EXCEPT !.cx = l.cx + 1]
    ELSE IF l.cz < 15 THEN [l EXCEPT !.cx = 0, !.cz = l.cz + 1]
    ELSE IF l.hm < Len(heightmapTypes) THEN [l EXCEPT !.cx = 0, !.cz = 0, !.hm = l.hm + 1]
    ELSE IF l.z < chunkRect.size[2] - 1
         THEN [l EXCEPT !.cx = 0, !.cz = 0, !.hm = 1, !.z = l.z + 1]
    ELSE [l EXCEPT !.cx = 0, !.cz = 0, !.hm = 1, !.z = 0, !.x = l.x + 1]

HeightLoopStep ==
    IF HeightLoopLast(loop)
    THEN pc' = "sections" /\ loop' = NoLoop
    ELSE pc' = pc /\ loop' = HeightLoopNext(loop)

\* Lines 96-98: the assignment into the grid succeeds.
StoreHeight ==
    /\ pc = "heightmaps"
    /\ NpIndexOk(rect.size, DestIndex(loop)[1], DestIndex(loop)[2])
    /\ heightmaps' =
          [heightmaps EXCEPT
              ![heightmapTypes[loop.hm]][NpCell(rect.size, DestIndex(loop)[1],
                                                DestIndex(loop)[2])] =
                  HeightValue(loop)]
    /\ HeightLoopStep
    /\ UNCHANGED <<rect, heightmapTypes, chunkRect, fetchCalls, fetched, nbtfile,
                   rectOffset, sections, error, result>>
    /\ UNCHANGED bitVars

\* Lines 99-100: the assignment raises IndexError, which is passed over.
SkipHeight ==
    /\ pc = "heightmaps"
    /\ ~NpIndexOk(rect.size, DestIndex(loop)[1], DestIndex(loop)[2])
    /\ HeightLoopStep
    /\ UNCHANGED <<rect, heightmapTypes, chunkRect, fetchCalls, fetched, nbtfile,
                   rectOffset, heightmaps, sections, error, result>>
    /\ UNCHANGED bitVars

\* CachedSection(position, blockPalette, blockStatesBitArray, biomesPalette,
\* biomesBitArray)
CachedSection(position, blockPalette, blockStatesBitArray, biomesPalette, biomesBitArray) ==
    [position |-> position,
     blockPalette |-> blockPalette,
     blockStatesBitArray |-> blockStatesBitArray,
     biomesPalette |-> biomesPalette,
     biomesBitArray |-> biomesBitArray]

\* A variant of LoopChunkID: the index of the chunk column by column.
LoopChunkIDTransposed(l) == l.z + l.x * chunkRect.size[2]

\* The section node the loops of lines 105-111 are at.
LoopChunkID(l) == l.x + l.z * chunkRect.size[1]
LoopSections(l) == DocChunk(nbtfile, LoopChunkID(l)).sections
LoopSection(l) == LoopSections(l)[l.si]

\* The loop variables after one more section (for x, for z, for section);
\* every chunk of the document has at least one section.
SectionLoopLast(l) ==
    /\ l.si = Len(LoopSections(l))
    /\ l.z = chunkRect.size[2] - 1 /\ l.x = chunkRect.size[1] - 1

SectionLoopNext(l) ==
    IF l.si < Len(LoopSections(l)) THEN [l EXCEPT !.si = l.si + 1]
    ELSE IF l.z < chunkRect.size[2] - 1 THEN [l EXCEPT !.si = 1, !.z = l.z + 1]
    ELSE [l EXCEPT !.si = 1, !.z = 0, !.x = l.x + 1]

SectionLoopStep ==
    IF SectionLoopLast(loop)
    THEN pc' = "done" /\ loop' = NoLoop
    ELSE pc' = pc /\ loop' = SectionLoopNext(loop)

\* Lines 114-116: a section without block_states, or with an empty one.
SectionSkipped(section) ==
    ~section.block_states.present \/ CompoundLen(section.block_states) = 0

\* The fields lines 118-129 read without asking whether they are there.
SectionReadable(section) ==
    /\ section.block_states.hasPalette
    /\ section.biomes.present
    /\ section.biomes.hasPalette

\* A variant of blockPaletteBitsPerEntry: without the floor of 4 bits.
blockPaletteBitsPerEntryNoFloor(blockPalette) == CeilLog2(Len(blockPalette))

\* Lines 122 and 129.
blockPaletteBitsPerEntry(blockPalette) == Max(4, CeilLog2(Len(blockPalette)))
biomesBitsPerEntry(biomesPalette) == Max(1, CeilLog2(Len(biomesPalette)))

\* Lines 114-116: continue.
SkipSection ==
    /\ pc = "sections"
    /\ SectionSkipped(LoopSection(loop))
    /\ SectionLoopStep
    /\ UNCHANGED <<rect, heightmapTypes, chunkRect, fetchCalls, fetched, nbtfile,
                   rectOffset, heightmaps, sections, error, result>>
    /\ UNCHANGED bitVars

\* Lines 118-134: the section is decoded and put into self.sections.
CacheSection ==
    /\ pc = "sections"
    /\ ~SectionSkipped(LoopSection(loop))
    /\ SectionReadable(LoopSection(loop))
    /\ LET section == LoopSection(loop)
           y == section.Y
           blockPalette == section.block_states.palette
           blockData == IF section.block_states.hasData
                        THEN section.block_states.data ELSE NoData
           blockDataBitArray ==
               BitArray(blockPaletteBitsPerEntry(blockPalette), 16 * 16 * 16, blockData)
           biomesPalette == section.biomes.palette
           biomesData == IF section.biomes.hasData THEN section.biomes.data ELSE NoData
           biomesDataBitArray ==
               BitArray(biomesBitsPerEntry(biomesPalette), 64, biomesData)
           key == <<loop.x, y, loop.z>>
       IN  sections' = (key :> CachedSection(key, blockPalette, blockDataBitArray,
                                              biomesPalette, biomesDataBitArray))
                       @@ sections
    /\ SectionLoopStep
    /\ UNCHANGED <<rect, heightmapTypes, chunkRect, fetchCalls, fetched, nbtfile,
                   rectOffset, heightmaps, error, result>>
    /\ UNCHANGED bitVars

\* Lines 118-128: a field that is read is not there, and __init__ ends with
\* the KeyError.
SectionFails ==
    /\ pc = "sections"
    /\ ~SectionSkipped(LoopSection(loop))
    /\ ~SectionReadable(LoopSection(loop))
    /\ pc' = "failed"
    /\ error' = "KeyError"
    /\ UNCHANGED <<rect, heightmapTypes, chunkRect, fetchCalls, fetched, nbtfile,
                   rectOffset, heightmaps, loop, sections, result>>
    /\ UNCHANGED bitVars

----------------------------------------------------------------------------
(* The queries of WorldSlice *)

\* list[index] on a palette (the model's sequences start at 1).
PaletteAt(palette, index) ==
    IF index + 1 \in DOMAIN palette THEN Return(palette[index + 1])
    ELSE Raise("IndexError")

\* palette[i] for what getAt gave, or getAt's failure.
PaletteEntry(palette, i) ==
    IF i.kind = "raise" THEN i ELSE PaletteAt(palette, i.value)

\* CachedSection.getBlockCompoundAtIndex
getBlockCompoundAtIndex(section, index) ==
    PaletteEntry(section.blockPalette, getAt(section.blockStatesBitArray, index))

\* CachedSection.getBiomeAtIndex
getBiomeAtIndex(section, index) ==
    PaletteEntry(section.biomesPalette, getAt(section.biomesBitArray, index))

\* vector_util.addY(v): (v.x, 0, v.y)
addY(v) == <<v[1], 0, v[2]>>

\* WorldSlice.getChunkSectionPos
getChunkSectionPos(position) ==
    <<Shr(position[1], 4) - addY(chunkRect.offset)[1],
      Shr(position[2], 4) - addY(chunkRect.offset)[2],
      Shr(position[3], 4) - addY(chunkRect.offset)[3]>>

\* self.sections.get(key) is not None
SectionCached(position) == getChunkSectionPos(position) \in DOMAIN sections

\* A variant of blockIndex: x and y swapped.
blockIndexSwapped(position) ==
    PyMod(position[2], 16) * 16 * 16 + PyMod(position[1], 16) * 16 + PyMod(position[3], 16)

\* The blockIndex of getBlockCompoundAt, lines 151-155, on Python ints.
blockIndex(position) ==
    PyMod(position[2], 16) * 16 * 16 + PyMod(position[3], 16) * 16 + PyMod(position[1], 16)

\* WorldSlice.getBlockCompoundAt
getBlockCompoundAt(position) ==
    IF ~SectionCached(position) THEN ReturnNone
    ELSE getBlockCompoundAtIndex(sections[getChunkSectionPos(position)],
                                 blockIndex(position))

\* A variant of BlockNameOf: no test for None, which is passed on.
BlockNameOfNoSentinel(blockCompound) ==
    IF blockCompound.kind = "return" THEN Return(blockCompound.value.Name)
    ELSE blockCompound

\* Lines 161-164 of getBlockAt, for the blockCompound found.
BlockNameOf(blockCompound) ==
    IF blockCompound.kind = "none" THEN Return("minecraft:void_air")
    ELSE IF blockCompound.kind = "raise" THEN blockCompound
    ELSE Return(blockCompound.value.Name)

\* WorldSlice.getBlockAt
getBlockAt(position) == BlockNameOf(getBlockCompoundAt(position))

\* Line 174 and 175 of getBiomeAt: biomePos = position % 16 >> 2 on the glm
\* vector, biomeIndex = (biomePos.y << 4) | (biomePos.z << 2) | biomePos.x.
biomePos(position) ==
    <<Shr(GlmMod(position[1], 16), 2),
      Shr(GlmMod(position[2], 16), 2),
      Shr(GlmMod(position[3], 16), 2)>>

biomeIndex(position) ==
    BitOr(BitOr(Shl(biomePos(position)[2], 4), Shl(biomePos(position)[3], 2)),
           biomePos(position)[1])

\* WorldSlice.getBiomeAt
getBiomeAt(position) ==
    IF ~SectionCached(position) THEN ReturnNone
    ELSE getBiomeAtIndex(sections[getChunkSectionPos(position)], biomeIndex(position))

\* A variant of ScanIndex: the indices in ascending order.
ScanIndexAscending(n) == n

\* The n-th (from 0) biomeIndex the loops of getBiomesNear compute: for
\* biomeX, for biomeY, for biomeZ: (biomeY << 4) | (biomeZ << 2) | biomeX.
ScanIndex(n) ==
    LET biomeX == n \div 16
        biomeY == (n \div 4) % 4
        biomeZ == n % 4
    IN  BitOr(BitOr(Shl(biomeY, 4), Shl(biomeZ, 2)), biomeX)

\* A dict from biome to count, as the sequence of its items in insertion
\* order, which is the order Python iterates it in.
DictHas(d, key) == \E i \in 1 .. Len(d) : d[i][1] = key
DictGet(d, key) == d[CHOOSE i \in 1 .. Len(d) : d[i][1] = key][2]
DictPut(d, key, v) ==
    IF DictHas(d, key)
    THEN [d EXCEPT ![CHOOSE i \in 1 .. Len(d) : d[i][1] = key] = <<key, v>>]
    ELSE Append(d, <<key, v>>)

\* Line 192: foundBiomes[foundBiome] = 1
CountedFirst(foundBiomes, foundBiome) == DictPut(foundBiomes, foundBiome, 1)

\* A variant of CountedAgain: the count starts over.
CountedAgainLost(foundBiomes, foundBiome) == DictPut(foundBiomes, foundBiome, 1)

\* Line 194: foundBiomes[foundBiome] = foundBiomes.get(foundBiome) + 1
CountedAgain(foundBiomes, foundBiome) ==
    DictPut(foundBiomes, foundBiome, DictGet(foundBiomes, foundBiome) + 1)

\* Lines 186-190: the foundBiome of every pass of the loops, by the number of
\* the pass.
ScannedBiomes(section) ==
    [n \in 0 .. 63 |-> getBiomeAtIndex(section, ScanIndex(n))]

\* Lines 191-195: the counting, from the n-th pass on, with foundBiomes so far.
RECURSIVE BiomesScan(_, _, _)
BiomesScan(found, n, foundBiomes) ==
    IF n = 64 THEN Return(foundBiomes)
    ELSE IF found[n].kind = "raise" THEN found[n]
    ELSE IF ~DictHas(foundBiomes, found[n].value)
    THEN BiomesScan(found, n + 1, CountedFirst(foundBiomes, found[n].value))
    ELSE BiomesScan(found, n + 1, CountedAgain(foundBiomes, found[n].value))

\* WorldSlice.getBiomesNear. (The comparison of found with itself makes TLC
\* enumerate the 64 lookups once, before the counting.)
getBiomesNear(position) ==
    IF ~SectionCached(position) THEN ReturnNone
    ELSE LET found == ScannedBiomes(sections[getChunkSectionPos(position)])
         IN  IF found = found THEN BiomesScan(found, 0, <<>>) ELSE ReturnNone

\* A variant of DictMax: the last key of the largest count.
DictMaxLast(d) ==
    LET best == CHOOSE i \in 1 .. Len(d) :
                    /\ \A j \in 1 .. Len(d) : d[j][2] <= d[i][2]
                    /\ \A j \in i + 1 .. Len(d) : d[j][2] < d[i][2]
    IN  d[best][1]

\* max(d, key=d.get): the first key, in iteration order, of the largest count.
DictMax(d) ==
    LET best == CHOOSE i \in 1 .. Len(d) :
                    /\ \A j \in 1 .. Len(d) : d[j][2] <= d[i][2]
                    /\ \A j \in 1 .. i - 1 : d[j][2] < d[i][2]
    IN  d[best][1]

\* WorldSlice.getPrimaryBiomeNear: foundBiomes.get raises AttributeError on
\* None, max raises ValueError on an empty dict.
PrimaryOf(foundBiomes) ==
    IF foundBiomes.kind = "none" THEN Raise("AttributeError")
    ELSE IF foundBiomes.kind = "raise" THEN foundBiomes
    ELSE IF Len(foundBiomes.value) = 0 THEN Raise("ValueError")
    ELSE Return(DictMax(foundBiomes.value))

getPrimaryBiomeNear(position) == PrimaryOf(getBiomesNear(position))

----------------------------------------------------------------------------
(* Queries on the constructed slice. A query leaves the slice as it is; the *)
(* model records one query per slice, with what it returned or raised, in   *)
(* result.                                                                  *)

\* The positions the recorded queries ask about: the two opposite corners of
\* the requested rectangle at heights in every kind of section, and a
\* position more than a chunk before the origin on both axes.
QueryYs == {-13, 5, 20, 40, 50, 100}
QueryPositions ==
    {<<rect.offset[1], y, rect.offset[2]>> : y \in QueryYs}
    \cup {<<rect.offset[1] + rect.size[1] - 1, y, rect.offset[2] + rect.size[2] - 1>> :
             y \in QueryYs}
    \cup {<<rect.offset[1] - 17, 5, rect.offset[2] - 17>>}

\* A variant of Query: the lookup takes the section out of self.sections
\* (pop for get).
QueryPopping(op, position, out) ==
    /\ pc = "done"
    /\ result = NoResult
    /\ result' = [op |-> op, position |-> position, out |-> out]
    /\ sections' = [key \in DOMAIN sections \ {getChunkSectionPos(position)} |->
                       sections[key]]
    /\ UNCHANGED <<rect, heightmapTypes, pc, chunkRect, fetchCalls, fetched, nbtfile,
                   rectOffset, heightmaps, loop, error>>
    /\ UNCHANGED bitVars

Query(op, position, out) ==
    /\ pc = "done"
    /\ result = NoResult
    /\ result' = [op |-> op, position |-> position, out |-> out]
    /\ UNCHANGED <<rect, heightmapTypes, pc, chunkRect, fetchCalls, fetched, nbtfile,
                   rectOffset, heightmaps, loop, sections, error>>
    /\ UNCHANGED bitVars

QueryBlockAt ==
    \E p \in QueryPositions : Query("getBlockAt", p, getBlockAt(p))

QueryBlockCompoundAt ==
    \E p \in QueryPositions : Query("getBlockCompoundAt", p, getBlockCompoundAt(p))

QueryBiomeAt ==
    \E p \in QueryPositions : Query("getBiomeAt", p, getBiomeAt(p))

QueryBiomesNear ==
    \E p \in QueryPositions : Query("getBiomesNear", p, getBiomesNear(p))

QueryPrimaryBiomeNear ==
    \E p \in QueryPositions : Query("getPrimaryBiomeNear", p, getPrimaryBiomeNear(p))

----------------------------------------------------------------------------
(* Specifications *)

\* The requested rectangles, per axis as <<origin, size>>: chunk-aligned,
\* inside one chunk, across a chunk border, across the border at 0, and in
\* negative coordinates; and rectangles whose size is not positive.
AxisConfigs == {<<0, 2>>, <<5, 3>>, <<14, 4>>, <<-3, 5>>, <<-20, 2>>}

BadRects ==
    {[offset |-> <<5, 0>>, size |-> <<0, 2>>],
     [offset |-> <<0, 0>>, size |-> <<0, 0>>],
     [offset |-> <<0, 0>>, size |-> <<2, -1>>]}

Rects ==
    {[offset |-> <<a[1], b[1]>>, size |-> <<a[2], b[2]>>] : a, b \in AxisConfigs}
    \cup BadRects

\* The calls of the constructor: every rectangle with one kind of heightmap,
\* and two of them with the default kinds as well.
DefaultRects ==
    {[offset |-> <<14, -3>>, size |-> <<4, 5>>],
     [offset |-> <<5, 0>>, size |-> <<3, 2>>]}

Calls ==
    {<<r, <<"WORLD_SURFACE">>>> : r \in Rects}
    \cup {<<r, NoneTypes>> : r \in DefaultRects}

\* The state a WorldSlice(r, types) call starts in.
Start(r, types) ==
    /\ rect = r
    /\ heightmapTypes = types
    /\ pc = "start"
    /\ chunkRect = NoRect
    /\ fetchCalls = 0
    /\ fetched = <<>>
    /\ nbtfile = NoDocument
    /\ rectOffset = <<0, 0>>
    /\ heightmaps = <<>>
    /\ loop = NoLoop
    /\ sections = <<>>
    /\ error = "none"
    /\ result = NoResult

BitsIdle ==
    /\ bitArray = NoBitArray
    /\ longArray = <<>>
    /\ entries = <<>>
    /\ decoded = <<>>

Init ==
    /\ \E call \in Calls : Start(call[1], call[2])
    /\ BitsIdle

Next ==
    \/ ComputeChunkRect
    \/ FetchChunks
    \/ FetchFails
    \/ ParseAndAllocate
    \/ StoreHeight
    \/ SkipHeight
    \/ SkipSection
    \/ CacheSection
    \/ SectionFails
    \/ QueryBlockAt
    \/ QueryBlockCompoundAt
    \/ QueryBiomeAt
    \/ QueryBiomesNear
    \/ QueryPrimaryBiomeNear

Spec == Init /\ [][Next]_vars

\* The rectangles of SpecRect: every origin in -MaxOrigin..MaxOrigin and the
\* sizes around one and two chunks, on both axes.
RectSizes == {1, 2, 15, 16, 17, 33}

RectsOfSpecRect ==
    {[offset |-> <<ox, oz>>, size |-> <<sx, sz>>] :
        ox \in -MaxOrigin .. MaxOrigin, oz \in -MaxOrigin .. MaxOrigin,
        sx \in RectSizes, sz \in RectSizes}

InitRect ==
    /\ \E r \in RectsOfSpecRect : Start(r, <<>>)
    /\ BitsIdle

NextRect == ComputeChunkRect

\* The first step of the constructor on many rectangles.
SpecRect == InitRect /\ [][NextRect]_vars

\* The test chunks' slices: a one-column rectangle at the origin of each test
\* chunk, no heightmaps.
InitBiomes ==
    /\ \E wcx \in GridChunkXs, wcz \in GridChunkZs :
          Start([offset |-> <<wcx * 16, wcz * 16>>, size |-> <<1, 1>>], <<>>)
    /\ BitsIdle

NextBiomes ==
    \/ ComputeChunkRect
    \/ FetchChunks
    \/ ParseAndAllocate
    \/ CacheSection
    \/ QueryBiomeAt
    \/ QueryBiomesNear
    \/ QueryPrimaryBiomeNear

\* The construction of the test chunks' slices and the biome queries on them.
SpecBiomes == InitBiomes /\ [][NextBiomes]_vars

\* The queries of a WorldSlice, and what each answers for a position on the
\* slice as it is.
QueryOps ==
    {"getChunkSectionPos", "getBlockCompoundAt", "getBlockAt", "getBiomeAt",
     "getBiomesNear", "getPrimaryBiomeNear"}

Answer(op, position) ==
    CASE op = "getChunkSectionPos" -> Return(getChunkSectionPos(position))
      [] op = "getBlockCompoundAt" -> getBlockCompoundAt(position)
      [] op = "getBlockAt" -> getBlockAt(position)
      [] op = "getBiomeAt" -> getBiomeAt(position)
      [] op = "getBiomesNear" -> getBiomesNear(position)
      [] op = "getPrimaryBiomeNear" -> getPrimaryBiomeNear(position)

\* The first query on a slice.
QueryFirst ==
    \E op \in QueryOps, p \in QueryPositions : Query(op, p, Answer(op, p))

\* A query on a slice that has been queried before.
QueryAgain ==
    /\ pc = "done"
    /\ result # NoResult
    /\ \E op \in QueryOps, p \in QueryPositions :
          result' = [op |-> op, position |-> p, out |-> Answer(op, p)]
    /\ UNCHANGED <<rect, heightmapTypes, pc, chunkRect, fetchCalls, fetched, nbtfile,
                   rectOffset, heightmaps, loop, sections, error>>
    /\ UNCHANGED bitVars

\* Two slices, one of them at negative coordinates across a chunk border.
CallsOfSpecQueries ==
    {<<[offset |-> <<-3, 0>>, size |-> <<5, 2>>], <<"WORLD_SURFACE">>>>,
     <<[offset |-> <<5, 5>>, size |-> <<3, 3>>], <<"OCEAN_FLOOR">>>>}

InitQueries ==
    /\ \E call \in CallsOfSpecQueries : Start(call[1], call[2])
    /\ BitsIdle

NextQueries ==
    \/ ComputeChunkRect
    \/ FetchChunks
    \/ ParseAndAllocate
    \/ StoreHeight
    \/ SkipHeight
    \/ SkipSection
    \/ CacheSection
    \/ QueryFirst
    \/ QueryAgain

\* The construction of two slices and every sequence of queries on them.
SpecQueries == InitQueries /\ [][NextQueries]_vars

----------------------------------------------------------------------------
(* BitArray on its own: arrays of every width, packed and read back.       *)

\* The widths of the arrays under test are 1..MaxBits.
MaxBits == 32

\* The arrays under test are filled by the patterns 0..MaxPattern.
MaxPattern == 5

\* Bit b of entry i of an array of width w under pattern s: all ones, all
\* zeros, alternating, the highest bit only, and two mixed patterns.
PatternBit(s, w, i, b) ==
    CASE s = 0 -> 1
      [] s = 1 -> 0
      [] s = 2 -> (i + b) % 2
      [] s = 3 -> IF b = w - 1 THEN 1 ELSE 0
      [] OTHER -> IF ((i + 1) * (b + 3) * (s + 5)) % 7 < 3 THEN 1 ELSE 0

\* The lengths of the arrays of width w: one entry, one full long, one long
\* and one entry, two longs and one entry.
TestSizes(w) ==
    {1, WordBits \div w, (WordBits \div w) + 1, 2 * (WordBits \div w) + 1}

InitBits ==
    /\ Start(NoRect, <<>>)
    /\ \E w \in 1 .. MaxBits, s \in 0 .. MaxPattern :
          \E n \in TestSizes(w) :
              /\ entries = [i \in 0 .. n - 1 |->
                               [b \in 0 .. w - 1 |-> PatternBit(s, w, i, b)]]
              /\ longArray = PackWords(entries, w, n)
              /\ bitArray = BitArray(w, n, <<"test">>)
    /\ decoded = <<>>

\* One more getAt: the entry at the next index, as its bits.
ReadEntry ==
    /\ getAtInRange(bitArray, Len(decoded))
    /\ decoded' = Append(decoded,
                         getAtIn(bitArray, LongArrayOf(bitArray.data), Len(decoded)))
    /\ UNCHANGED <<bitArray, longArray, entries>>
    /\ UNCHANGED sliceVars

NextBits == ReadEntry

SpecBits == InitBits /\ [][NextBits]_vars

----------------------------------------------------------------------------
(* The widths of the packed arrays on their own *)

\* The largest palette.
MaxPalette == 130

InitWidths ==
    /\ Start(NoRect, <<>>)
    /\ BitsIdle

\* Lines 118-124 for a block palette of n entries without data: the array
\* of 4096 entries gets its width from the palette.
SizeBlockArray ==
    /\ bitArray = NoBitArray
    /\ \E n \in 1 .. MaxPalette :
          LET blockPalette == BlockPalette(0, 0, 0, n)
          IN  /\ entries' = blockPalette
              /\ bitArray' = BitArray(blockPaletteBitsPerEntry(blockPalette),
                                      16 * 16 * 16, NoData)
    /\ UNCHANGED <<longArray, decoded>>
    /\ UNCHANGED sliceVars

\* Lines 125-131 for a biome palette of n entries without data.
SizeBiomeArray ==
    /\ bitArray = NoBitArray
    /\ \E n \in 1 .. MaxPalette :
          LET biomesPalette == BiomePalette(0, 0, 0, n)
          IN  /\ entries' = biomesPalette
              /\ bitArray' = BitArray(biomesBitsPerEntry(biomesPalette), 64, NoData)
    /\ UNCHANGED <<longArray, decoded>>
    /\ UNCHANGED sliceVars

NextWidths == SizeBlockArray \/ SizeBiomeArray

SpecWidths == InitWidths /\ [][NextWidths]_vars

----------------------------------------------------------------------------
(* What the world holds, read off the world directly: the values the       *)
(* properties below compare the slice's answers with.                      *)

\* Column or block coordinate c lies in chunk or section k.
InChunk(c, k) == 16 * k <= c /\ c <= 16 * k + 15

\* The chunk or section coordinate of c: floor(c / 16).
ChunkOf(c) == CHOOSE k \in (c \div 16) - 1 .. (c \div 16) + 1 : InChunk(c, k)

\* The shape of section Y of chunk (wcx, wcz), which must have one.
ShapeOf(wcx, wcz, Y) ==
    SectionShapes(wcx, wcz)[CHOOSE s \in 1 .. Len(SectionShapes(wcx, wcz)) :
                                SectionShapes(wcx, wcz)[s].Y = Y]

\* The block compound the document stores for position p: the entry of the
\* section's palette at the stored palette index, entry 0 where the section
\* stores one palette entry and no indices.
StoredBlock(p) ==
    LET wcx == ChunkOf(p[1])
        wcz == ChunkOf(p[3])
        Y == ChunkOf(p[2])
        n == ShapeOf(wcx, wcz, Y).nBlocks
    IN  BlockPalette(wcx, wcz, Y, n)[
            (IF n = 1 THEN 0 ELSE WorldBlockIndex(p[1], p[2], p[3], n)) + 1]

\* The local index of p in its section, from its local coordinates in 0..15.
LocalBlockIndex(p) ==
    (p[2] - 16 * ChunkOf(p[2])) * 256 + (p[3] - 16 * ChunkOf(p[3])) * 16
        + (p[1] - 16 * ChunkOf(p[1]))

\* The biome cells of a section, as <<x, y, z>>, and their cell indices.
Cells == (0 .. 3) \X (0 .. 3) \X (0 .. 3)
CellIndex(c) == c[2] * 16 + c[3] * 4 + c[1]

\* The biome the document stores for cell c of the section that holds p.
CellBiome(p, c) ==
    LET wcx == ChunkOf(p[1])
        wcz == ChunkOf(p[3])
        Y == ChunkOf(p[2])
        n == ShapeOf(wcx, wcz, Y).nBiomes
    IN  BiomePalette(wcx, wcz, Y, n)[
            WorldBiomeIndex(wcx, wcz, Y, c[1], c[2], c[3], n) + 1]

\* The biome cell of p in its section, from its local coordinates.
LocalCell(p) ==
    <<(p[1] - 16 * ChunkOf(p[1])) \div 4,
      (p[2] - 16 * ChunkOf(p[2])) \div 4,
      (p[3] - 16 * ChunkOf(p[3])) \div 4>>

\* The biomes of the section that holds p, and the cells of each.
BiomesOf(p) == {CellBiome(p, c) : c \in Cells}
CellsOf(p, biome) == {c \in Cells : CellBiome(p, c) = biome}
MostCells(p) ==
    {b \in BiomesOf(p) :
        \A o \in BiomesOf(p) : Cardinality(CellsOf(p, o)) <= Cardinality(CellsOf(p, b))}

\* The r-th cell, from 0, in the order of the loops of getBiomesNear (x
\* outermost, then y, then z) and in the order of the cell indices.
LoopCell(r) == <<r \div 16, (r \div 4) % 4, r % 4>>
IndexCell(r) == <<r % 4, r \div 16, (r \div 4) % 4>>

\* The biome of most cells that comes first in either order.
FirstByLoop(p) ==
    LET most == MostCells(p)
        first == CHOOSE r \in 0 .. 63 :
                     /\ CellBiome(p, LoopCell(r)) \in most
                     /\ \A q \in 0 .. r - 1 : CellBiome(p, LoopCell(q)) \notin most
    IN  CellBiome(p, LoopCell(first))

FirstByIndex(p) ==
    LET most == MostCells(p)
        first == CHOOSE r \in 0 .. 63 :
                     /\ CellBiome(p, IndexCell(r)) \in most
                     /\ \A q \in 0 .. r - 1 : CellBiome(p, IndexCell(q)) \notin most
    IN  CellBiome(p, IndexCell(first))

\* The sum of the counts of a dict.
RECURSIVE CountSum(_)
CountSum(d) == IF Len(d) = 0 THEN 0 ELSE d[1][2] + CountSum(Tail(d))

----------------------------------------------------------------------------
(* Properties *)

\* C1: for a position p whose section is cached, of either sign, the block
\* queries use the local index (p.y mod 16)*256 + (p.z mod 16)*16 + (p.x mod 16)
\* with a non-negative modulo, which lies in 0..4095, and answer with the
\* palette entry the document stores for p in the section floor(p.y/16) of
\* chunk (floor(p.x/16), floor(p.z/16)).
C1_BlockAtStoredEntry ==
    (result.op \in {"getBlockAt", "getBlockCompoundAt"}
        /\ SectionCached(result.position))
    => /\ blockIndex(result.position) = LocalBlockIndex(result.position)
       /\ blockIndex(result.position) \in 0 .. 4095
       /\ result.op = "getBlockCompoundAt"
             => result.out = Return(StoredBlock(result.position))
       /\ result.op = "getBlockAt"
             => result.out = Return(StoredBlock(result.position).Name)

\* A block was read at negative x and y from a section with 17 palette
\* entries.
C1_Witness ==
    /\ result.op = "getBlockAt"
    /\ SectionCached(result.position)
    /\ result.position[1] < 0
    /\ result.position[2] < 0
    /\ result.position[1] # result.position[3]
    /\ result.out.kind = "return"

\* C2: for a position whose section key is not cached (the section is not in
\* the document, or was skipped for its absent or empty block_states),
\* getBlockAt returns "minecraft:void_air": it neither raises nor returns None.
C2_AbsentSectionVoidAir ==
    (result.op = "getBlockAt" /\ ~SectionCached(result.position))
    => result.out = Return("minecraft:void_air")

\* getBlockAt was asked for a block inside the rectangle, in the section
\* whose block_states is present and empty.
C2_Witness ==
    /\ result.op = "getBlockAt"
    /\ result.position = <<rect.offset[1], 50, rect.offset[2]>>
    /\ rect.size[1] > 0 /\ rect.size[2] > 0
    /\ ShapeOf(ChunkOf(rect.offset[1]), ChunkOf(rect.offset[2]), 3).kind = "empty"
    /\ ~SectionCached(result.position)
    /\ result.out = Return("minecraft:void_air")

\* C3: when the construction has completed, every requested kind has a grid,
\* and each cell (i, j) of it holds the raw heightmap value of the world
\* column (origin.x + i, origin.z + j) plus BUILD_Y_MIN, whatever the
\* rectangle's origin and size: no write for a column outside the rectangle
\* decides the final value of a cell.
C3_HeightmapCells ==
    pc = "done"
    => /\ DOMAIN heightmaps = {heightmapTypes[k] : k \in 1 .. Len(heightmapTypes)}
       /\ \A kind \in DOMAIN heightmaps :
             /\ DOMAIN heightmaps[kind] =
                    (0 .. rect.size[1] - 1) \X (0 .. rect.size[2] - 1)
             /\ \A cell \in DOMAIN heightmaps[kind] :
                    heightmaps[kind][cell] =
                        WorldHeight(kind, rect.offset[1] + cell[1],
                                    rect.offset[2] + cell[2]) + BUILD_Y_MIN

\* A slice of four kinds is complete whose rectangle starts inside a chunk, is
\* smaller than a chunk, and for which columns before the rectangle were
\* stored at indices counted from the end.
C3_Witness ==
    /\ pc = "done"
    /\ Len(heightmapTypes) = 4
    /\ rectOffset[1] > 0 /\ rectOffset[2] > 0
    /\ rect.size[1] < 16 /\ rect.size[2] < 16
    /\ \E cx \in 0 .. 15 :
          -rect.size[1] <= cx - rectOffset[1] /\ cx - rectOffset[1] < 0
    /\ heightmaps["OCEAN_FLOOR"][<<0, 0>>] =
          WorldHeight("OCEAN_FLOOR", rect.offset[1], rect.offset[2]) + BUILD_Y_MIN

\* C4: for a rectangle of positive size, chunkRect covers exactly the chunks
\* the rectangle touches, on both axes: every column of the rectangle lies in
\* a chunk of chunkRect and every chunk of chunkRect holds a column of the
\* rectangle, for negative origins as well.
C4_ChunkRectCovers ==
    (pc = "fetch" /\ rect.size[1] > 0 /\ rect.size[2] > 0)
    => \A a \in 1 .. 2 :
          /\ \A c \in rect.offset[a] .. rect.offset[a] + rect.size[a] - 1 :
                \E k \in chunkRect.offset[a] ..
                             chunkRect.offset[a] + chunkRect.size[a] - 1 :
                    InChunk(c, k)
          /\ \A k \in chunkRect.offset[a] .. chunkRect.offset[a] + chunkRect.size[a] - 1 :
                \E c \in rect.offset[a] .. rect.offset[a] + rect.size[a] - 1 :
                    InChunk(c, k)

\* The chunk rectangle of a rectangle with a negative, unaligned origin that
\* reaches across the chunk border at 0.
C4_Witness ==
    /\ pc = "fetch"
    /\ rect.offset[1] < 0
    /\ ~InChunk(rect.offset[1] + 15, ChunkOf(rect.offset[1]))
    /\ rect.offset[1] + rect.size[1] - 1 >= 0
    /\ chunkRect.offset[1] = -1
    /\ chunkRect.size[1] = 2

\* C5: for a position p whose section is cached, of either sign, getBiomeAt
\* takes p modulo 16 with a non-negative result, shifts it right by 2 to a
\* cell (lx, ly, lz) in 0..3, and passes the index (ly<<4)|(lz<<2)|lx, which
\* lies in 0..63, to the section: no negative or out-of-range index is passed.
C5_BiomeIndexInRange ==
    (result.op = "getBiomeAt" /\ SectionCached(result.position))
    => /\ biomePos(result.position) = LocalCell(result.position)
       /\ biomeIndex(result.position) = CellIndex(LocalCell(result.position))
       /\ biomeIndex(result.position) \in 0 .. 63

\* C6 as amended: for a cached section, getPrimaryBiomeNear returns a biome
\* of the largest cell count, and of several such biomes the one met first by
\* the loops of getBiomesNear, which run over x outermost, then y, then z.
C6_FirstInLoopOrder ==
    (result.op = "getPrimaryBiomeNear" /\ SectionCached(result.position))
    => result.out = Return(FirstByLoop(result.position))

\* C6 as stated: of several biomes of the largest cell count,
\* getPrimaryBiomeNear returns the one whose lowest cell index
\* (y<<4)|(z<<2)|x is smallest.
C6_FirstInIndexOrder ==
    (result.op = "getPrimaryBiomeNear" /\ SectionCached(result.position))
    => result.out = Return(FirstByIndex(result.position))

\* getPrimaryBiomeNear answered for a section in which two biomes share the
\* largest count and the two orders disagree on which comes first.
C6_Witness ==
    /\ result.op = "getPrimaryBiomeNear"
    /\ SectionCached(result.position)
    /\ Cardinality(MostCells(result.position)) >= 2
    /\ FirstByLoop(result.position) # FirstByIndex(result.position)
    /\ result.out = Return(FirstByLoop(result.position))

\* C7: for a cached section, getBiomesNear returns a mapping whose keys are
\* the biomes that hold at least one of the 64 cells, each with the number of
\* cells that resolve to it; the counts sum to 64.
C7_HistogramCounts ==
    (result.op = "getBiomesNear" /\ SectionCached(result.position))
    => /\ result.out.kind = "return"
       /\ \A i, j \in 1 .. Len(result.out.value) :
             result.out.value[i][1] = result.out.value[j][1] => i = j
       /\ {result.out.value[i][1] : i \in 1 .. Len(result.out.value)}
             = BiomesOf(result.position)
       /\ \A i \in 1 .. Len(result.out.value) :
             /\ result.out.value[i][2] =
                    Cardinality(CellsOf(result.position, result.out.value[i][1]))
             /\ result.out.value[i][2] > 0
       /\ CountSum(result.out.value) = 64

\* getBiomesNear answered for a section of three biomes with unlike counts.
C7_Witness ==
    /\ result.op = "getBiomesNear"
    /\ SectionCached(result.position)
    /\ result.out.kind = "return"
    /\ Len(result.out.value) = 3
    /\ result.out.value[1][2] # result.out.value[2][2]
    /\ result.out.value[2][2] # result.out.value[3][2]

\* C8: for a position whose section is not cached, getBiomeAt, getBiomesNear
\* and getPrimaryBiomeNear each return the absent value, and none raises.
C8_AbsentSectionAbsentResult ==
    (result.op \in {"getBiomeAt", "getBiomesNear", "getPrimaryBiomeNear"}
        /\ ~SectionCached(result.position))
    => result.out = ReturnNone

\* C9: for a cached section whose 64 cells hold two biomes, 32 cells each,
\* getPrimaryBiomeNear returns the biome of cell index 0.
C9_EvenSplitCellZero ==
    (result.op = "getPrimaryBiomeNear"
        /\ SectionCached(result.position)
        /\ Cardinality(BiomesOf(result.position)) = 2
        /\ \A b \in BiomesOf(result.position) :
              Cardinality(CellsOf(result.position, b)) = 32)
    => result.out = Return(CellBiome(result.position, <<0, 0, 0>>))

\* getPrimaryBiomeNear answered for an even split in which the biome of cell
\* 0 does not hold the 32 lowest cell indices.
C9_Witness ==
    /\ result.op = "getPrimaryBiomeNear"
    /\ SectionCached(result.position)
    /\ Cardinality(BiomesOf(result.position)) = 2
    /\ \A b \in BiomesOf(result.position) :
          Cardinality(CellsOf(result.position, b)) = 32
    /\ \E c \in Cells :
          /\ CellIndex(c) < 32
          /\ CellBiome(result.position, c) # CellBiome(result.position, <<0, 0, 0>>)
    /\ result.out = Return(CellBiome(result.position, <<0, 0, 0>>))

\* C10: packing n values of w bits, w in 1..MaxBits, into longs with
\* floor(64 / w) entries per long and none split across longs, then reading
\* the indices 0..n-1 with getAt gives the values back, in order.
C10_RoundTrip ==
    /\ Len(decoded) <= bitArray.arraySize
    /\ \A i \in 1 .. Len(decoded) : decoded[i] = entries[i - 1]

\* An array of 5-bit entries, filling two longs and one entry, was read back
\* whole.
C10_Witness ==
    /\ bitArray.bitsPerEntry = 5
    /\ bitArray.arraySize = 2 * entriesPerLong(bitArray) + 1
    /\ Len(decoded) = bitArray.arraySize
    /\ \E i \in 0 .. bitArray.arraySize - 1 : \E b \in 0 .. 4 : entries[i][b] = 1
    /\ \E i \in 0 .. bitArray.arraySize - 1 : \E b \in 0 .. 4 : entries[i][b] = 0

\* A section node of the document with a block palette of one entry and no
\* block data, and with a biomes field that has a palette.
OneBlockNode(section) ==
    /\ section.block_states.present
    /\ section.block_states.hasPalette
    /\ Len(section.block_states.palette) = 1
    /\ ~section.block_states.hasData
    /\ section.biomes.present
    /\ section.biomes.hasPalette

\* C11: a section with a block palette of one entry and no block data does
\* not make the construction fail and is cached, and its
\* getBlockCompoundAtIndex(i) is that entry for every i in 0..4095; likewise
\* getBiomeAtIndex(i) for a biome palette of one entry and no biome data, for
\* every i in 0..63.
C11_SinglePaletteConstant ==
    /\ (pc = "failed" /\ error = "KeyError") => ~OneBlockNode(LoopSection(loop))
    /\ (pc = "done" /\ result = NoResult)
       => /\ \A x \in 0 .. chunkRect.size[1] - 1, z \in 0 .. chunkRect.size[2] - 1 :
                \A si \in 1 .. Len(DocChunk(nbtfile, x + z * chunkRect.size[1]).sections) :
                    OneBlockNode(DocChunk(nbtfile, x + z * chunkRect.size[1]).sections[si])
                    => <<x, DocChunk(nbtfile, x + z * chunkRect.size[1]).sections[si].Y, z>>
                          \in DOMAIN sections
          /\ \A key \in DOMAIN sections :
                /\ (Len(sections[key].blockPalette) = 1
                       /\ sections[key].blockStatesBitArray.data = NoData)
                   => \A i \in 0 .. 4095 :
                         getBlockCompoundAtIndex(sections[key], i)
                             = Return(sections[key].blockPalette[1])
                /\ (Len(sections[key].biomesPalette) = 1
                       /\ sections[key].biomesBitArray.data = NoData)
                   => \A i \in 0 .. 63 :
                         getBiomeAtIndex(sections[key], i)
                             = Return(sections[key].biomesPalette[1])

\* A slice is complete that caches a section with one block and one biome
\* palette entry and no data for either.
C11_Witness ==
    /\ pc = "done"
    /\ result = NoResult
    /\ \E key \in DOMAIN sections :
          /\ Len(sections[key].blockPalette) = 1
          /\ sections[key].blockStatesBitArray.data = NoData
          /\ sections[key].blockStatesBitArray.bitsPerEntry = 4
          /\ Len(sections[key].biomesPalette) = 1
          /\ sections[key].biomesBitArray.data = NoData
          /\ getBlockCompoundAtIndex(sections[key], 4095)
                = Return(sections[key].blockPalette[1])

\* C12: a construction issues one getChunks call, for the offset and size of
\* chunkRect, before anything is parsed or decoded; when the call fails the
\* construction ends with that error, no second call is issued, and no
\* document, heightmap or section exists.
C12_OneFetchBeforeParsing ==
    /\ fetchCalls = Len(fetched)
    /\ fetchCalls <= 1
    /\ pc \in {"start", "fetch"}
       => /\ fetchCalls = 0
          /\ ~nbtfile.parsed /\ heightmaps = <<>> /\ sections = <<>>
    /\ pc \in {"parse", "heightmaps", "sections", "done"} => fetchCalls = 1
    /\ (pc = "failed" /\ error # "InterfaceConnectionError") => fetchCalls = 1
    /\ fetchCalls = 1
       => fetched[1] = <<chunkRect.offset[1], chunkRect.offset[2],
                         chunkRect.size[1], chunkRect.size[2]>>
    /\ nbtfile.parsed
       => /\ nbtfile.offset = chunkRect.offset
          /\ nbtfile.size = chunkRect.size
    /\ error = "InterfaceConnectionError"
       => /\ pc = "failed"
          /\ fetchCalls = 1
          /\ ~nbtfile.parsed /\ heightmaps = <<>> /\ sections = <<>>

\* The one call, for a chunk rectangle of two chunks by one at a negative
\* chunk offset, failed and ended the construction.
C12_Witness ==
    /\ pc = "failed"
    /\ error = "InterfaceConnectionError"
    /\ chunkRect.offset[1] < 0
    /\ chunkRect.size = <<2, 1>>
    /\ fetched = <<<<chunkRect.offset[1], chunkRect.offset[2], 2, 1>>>>
    /\ heightmaps = <<>>
    /\ sections = <<>>

\* C13: a construction with a rectangle whose size is not positive on an axis
\* fails with InvalidArgument as its first step: chunkRect is not computed,
\* no getChunks call is issued and no heightmap grid is allocated.
C13_NonPositiveSizeRejected ==
    (rect.size[1] <= 0 \/ rect.size[2] <= 0)
    => \/ pc = "start"
       \/ /\ pc = "failed"
          /\ error = "InvalidArgument"
          /\ chunkRect = NoRect
          /\ fetchCalls = 0
          /\ heightmaps = <<>>

\* C14: once the slice is constructed, no query, first or later, on a cached
\* or uncached position, changes sections (keys, palettes, bit arrays), the
\* heightmap grids, chunkRect or anything else of the slice; and the answer
\* recorded for a query is the answer the same query gives on the slice as
\* it is afterwards.
C14_QueriesChangeNothing ==
    /\ [][pc = "done"
            => UNCHANGED <<rect, heightmapTypes, pc, chunkRect, fetchCalls, fetched,
                           nbtfile, rectOffset, heightmaps, loop, sections, error>>]_vars
    /\ [](result # NoResult => result.out = Answer(result.op, result.position))

\* A histogram was answered for a cached section of a slice with a heightmap
\* grid.
C14_Witness ==
    /\ pc = "done"
    /\ result.op = "getBiomesNear"
    /\ result.out.kind = "return"
    /\ SectionCached(result.position)
    /\ DOMAIN heightmaps # {}

\* C15: at every step of the construction, a column whose destination index
\* has a component below 0 or not below the rectangle's size on that axis is
\* not written to any cell, so every cell of every grid holds either its
\* initial zero or the value of its own column, never, even for a while, a
\* value of a column outside the rectangle.
C15_NoWriteFromOutside ==
    \A kind \in DOMAIN heightmaps :
        \A cell \in DOMAIN heightmaps[kind] :
            \/ heightmaps[kind][cell] = 0
            \/ heightmaps[kind][cell] =
                  WorldHeight(kind, rect.offset[1] + cell[1],
                              rect.offset[2] + cell[2]) + BUILD_Y_MIN

\* C16: a section with a non-empty block_states and no biomes field does not
\* make the construction fail: no construction ends with the KeyError of
\* reading the field, the section is left out and the loop goes on.
C16_MissingBiomesSkipped ==
    /\ error # "KeyError"
    /\ (pc = "done" /\ result = NoResult)
       => \A x \in 0 .. chunkRect.size[1] - 1, z \in 0 .. chunkRect.size[2] - 1 :
             \A si \in 1 .. Len(DocChunk(nbtfile, x + z * chunkRect.size[1]).sections) :
                 ~DocChunk(nbtfile, x + z * chunkRect.size[1]).sections[si].biomes.present
                 => <<x, DocChunk(nbtfile, x + z * chunkRect.size[1]).sections[si].Y, z>>
                       \notin DOMAIN sections

\* The sections of the document's chunk at index x + z * chunkRect.size.x
\* whose block_states is present and not empty.
DecodableSections(x, z) ==
    LET secs == DocChunk(nbtfile, x + z * chunkRect.size[1]).sections
    IN  {secs[si] : si \in {i \in 1 .. Len(secs) : ~SectionSkipped(secs[i])}}

\* C17: after the construction, sections has the key (x, Y, z) exactly when
\* the document's chunk at index x + z * chunkRect.size.x has a section Y
\* whose block_states is present and not empty; x and z of every key are
\* inside chunkRect, Y is the section's own, the cached palettes are that
\* section's, and a skipped section has no entry.
C17_SectionKeys ==
    pc = "done"
    => /\ DOMAIN sections =
            {<<x, section.Y, z>> :
                 <<x, z, section>> \in
                     {<<x, z, section>> \in
                          (0 .. chunkRect.size[1] - 1) \X (0 .. chunkRect.size[2] - 1)
                          \X UNION {DecodableSections(x, z) :
                                       <<x, z>> \in (0 .. chunkRect.size[1] - 1)
                                                    \X (0 .. chunkRect.size[2] - 1)} :
                          section \in DecodableSections(x, z)}}
       /\ \A key \in DOMAIN sections :
             /\ key[1] \in 0 .. chunkRect.size[1] - 1
             /\ key[3] \in 0 .. chunkRect.size[2] - 1
             /\ \E section \in DecodableSections(key[1], key[3]) :
                   /\ section.Y = key[2]
                   /\ sections[key].position = key
                   /\ sections[key].blockPalette = section.block_states.palette
                   /\ sections[key].biomesPalette = section.biomes.palette

\* A slice of two by two chunks, one of which has a section the others lack,
\* and which has skipped sections.
C17_Witness ==
    /\ pc = "done"
    /\ chunkRect.size = <<2, 2>>
    /\ <<1, 7, 0>> \in DOMAIN sections
    /\ <<0, 7, 1>> \notin DOMAIN sections
    /\ <<0, 2, 0>> \notin DOMAIN sections
    /\ <<0, 3, 0>> \notin DOMAIN sections
    /\ <<1, 0, 1>> \in DOMAIN sections

\* w is the least width of at least floor bits whose 2^w values cover the
\* n palette indices: max(floor, ceil(log2(n))).
LeastWidth(w, floor, n) ==
    /\ w >= floor
    /\ Pow2(w) >= n
    /\ (w > floor => Pow2(w - 1) < n)

\* C18: the array of a block palette of n >= 1 entries has
\* max(4, ceil(log2(n))) bits per entry and that of a biome palette
\* max(1, ceil(log2(n))); 3 entries give 4 and 2 bits, 1 entry gives 4 and 1
\* bits, and 2^w >= n always.
C18_BitWidths ==
    LET n == Len(entries)
        w == bitArray.bitsPerEntry
        isBlocks == bitArray.arraySize = 4096 /\ bitArray.data = NoData
        isBiomes == bitArray.arraySize = 64 /\ bitArray.data = NoData
    IN  /\ isBlocks => LeastWidth(w, 4, n)
        /\ (isBlocks /\ n = 3) => w = 4
        /\ (isBlocks /\ n = 1) => w = 4
        /\ isBiomes => LeastWidth(w, 1, n)
        /\ (isBiomes /\ n = 3) => w = 2
        /\ (isBiomes /\ n = 1) => w = 1

\* A block palette of 3 entries has got its array.
C18_Witness ==
    /\ bitArray.arraySize = 4096
    /\ bitArray.data = NoData
    /\ Len(entries) = 3
    /\ bitArray.bitsPerEntry = 4

====
